---- MODULE Spec2Model ----
(***************************************************************************)
(* The client components of the postcard search frontend:                  *)
(*   SearchResults (extracted-text panel, search request, result view,     *)
(*   pagination links), SearchForm (suggestions), FilterPanel (filters and *)
(*   sort order) and SearchPage (URL parsing).                             *)
(* JavaScript strings are sequences of one-character strings, so that      *)
(* includes(), toLowerCase(), length and the URL encodings are computed.   *)
(***************************************************************************)
EXTENDS Integers, Sequences, FiniteSets, TLC

VARIABLES
    \* ---- SearchResults: extracted-text panel (one text slot of a card) ----
    text,               \* result.image_text of the slot: undefined, null or a string
    textStatus,         \* standardizeTextDisplay(text) of the last render
    shown,              \* what renderExtractedText returned at the last render
    extractionTimeout,  \* useState(false), part_001:49
    timer,              \* the 10 s setTimeout of the mount effect is pending
    mounted,            \* the SearchResults instance is mounted
    \* ---- SearchResults: the search request and its view ----
    props,              \* the props of the last render (part_001:34-43)
    results,            \* useState([]), part_001:44
    total,              \* useState(0), part_001:45
    loading,            \* useState(true), part_001:46
    error,              \* useState(null), part_001:47
    enhancedQuery,      \* useState(null), part_001:48
    inflight,           \* fetchResults calls waiting at their await (part_001:146)
    sent,               \* number of requests sent to /api/search so far
    lastEvent,          \* the step taken last, with the request and response it handled
    \* ---- SearchForm ----
    formMounted,        \* the SearchForm instance is mounted
    query,              \* useState(initialQuery), part_002:11
    suggestions,        \* useState([]), part_002:12
    showSuggestions,    \* useState(false), part_002:13
    isLoading,          \* useState(false), part_002:14
    debounce,           \* the pending 300 ms timers, each with the query its closure holds
    suggestInflight,    \* fetchSuggestions calls waiting at their await (part_002:56)
    suggestSent,        \* number of requests sent to /api/suggest so far
    pushed,             \* the URL of the last router.push, if any
    formEvent,          \* the step taken last in the form
    \* ---- FilterPanel ----
    panel,              \* the six useState values of FilterPanel.tsx:28-33
    panelEvent          \* the handler run last, with the state it read and the URL it pushed

textVars == <<text, textStatus, shown, extractionTimeout, timer, mounted>>

resultsVars == <<props, results, total, loading, error, enhancedQuery,
                 inflight, sent, lastEvent>>

formVars == <<formMounted, query, suggestions, showSuggestions, isLoading,
              debounce, suggestInflight, suggestSent, pushed, formEvent>>

panelVars == <<panel, panelEvent>>

vars == <<text, textStatus, shown, extractionTimeout, timer, mounted,
          props, results, total, loading, error, enhancedQuery,
          inflight, sent, lastEvent,
          formMounted, query, suggestions, showSuggestions, isLoading,
          debounce, suggestInflight, suggestSent, pushed, formEvent,
          panel, panelEvent>>

(***************************************************************************)
(* Strings                                                                 *)
(***************************************************************************)
UpperLetters == <<"A","B","C","D","E","F","G","H","I","J","K","L","M",
                  "N","O","P","Q","R","S","T","U","V","W","X","Y","Z">>

LowerLetters == <<"a","b","c","d","e","f","g","h","i","j","k","l","m",
                  "n","o","p","q","r","s","t","u","v","w","x","y","z">>

\* String.prototype.toLowerCase, character by character
ToLowerChar(c) ==
    IF \E i \in 1..Len(UpperLetters) : UpperLetters[i] = c
    THEN LowerLetters[CHOOSE i \in 1..Len(UpperLetters) : UpperLetters[i] = c]
    ELSE c

ToLowerCase(s) == [i \in 1..Len(s) |-> ToLowerChar(s[i])]

\* String.prototype.includes
Includes(hay, needle) ==
    \E i \in 0..(Len(hay) - Len(needle)) :
        SubSeq(hay, i + 1, i + Len(needle)) = needle

\* all strings over alphabet A of length at most n
RECURSIVE StringsUpTo(_, _)
StringsUpTo(A, n) ==
    IF n = 0 THEN {<<>>}
    ELSE LET shorter == StringsUpTo(A, n - 1)
         IN  shorter \cup {Append(s, c) : s \in shorter, c \in A}

(***************************************************************************)
(* JavaScript values: a value carries its type                             *)
(***************************************************************************)
Undefined == [t |-> "undefined"]
Null      == [t |-> "null"]
Str(s)    == [t |-> "string", v |-> s]
Num(k)    == [t |-> "number", n |-> k]
\* a number with a fraction: k.f, where f is a non-empty string of digits that
\* does not end in 0
Dec(k, f) == [t |-> "number", n |-> k, f |-> f]
NaN       == [t |-> "NaN"]
Arr(a)    == [t |-> "array", a |-> a]

\* JavaScript truthiness of a value
Truthy(x) ==
    CASE x.t = "undefined" -> FALSE
      [] x.t = "null"      -> FALSE
      [] x.t = "NaN"       -> FALSE
      [] x.t = "number"    -> x.n # 0 \/ "f" \in DOMAIN x
      [] x.t = "string"    -> x.v # <<>>
      [] OTHER             -> TRUE

(***************************************************************************)
(* Numbers and URL encodings                                               *)
(***************************************************************************)
Digits == <<"0","1","2","3","4","5","6","7","8","9">>

RECURSIVE NatToString(_)
NatToString(k) ==
    IF k < 10 THEN <<Digits[k + 1]>>
    ELSE NatToString(k \div 10) \o <<Digits[(k % 10) + 1]>>

\* Number.prototype.toString and `${number}` (non-negative integers and NaN)
NumberToString(x) ==
    IF x = NaN THEN <<"N","a","N">>
    ELSE IF "f" \in DOMAIN x THEN NatToString(x.n) \o <<".">> \o x.f
    ELSE NatToString(x.n)

RECURSIVE Flatten(_)
Flatten(ss) == IF ss = <<>> THEN <<>> ELSE Head(ss) \o Flatten(Tail(ss))

\* the characters of this model that neither encoder leaves as they are
PercentCode(c) ==
    CASE c = " " -> <<"%","2","0">>
      [] c = "&" -> <<"%","2","6">>
      [] c = "=" -> <<"%","3","D">>
      [] c = "+" -> <<"%","2","B">>
      [] c = "%" -> <<"%","2","5">>
      [] OTHER   -> <<c>>

encodeURIComponent(s) == Flatten([i \in 1..Len(s) |-> PercentCode(s[i])])

\* the application/x-www-form-urlencoded serializer of URLSearchParams
FormEncode(s) ==
    Flatten([i \in 1..Len(s) |-> IF s[i] = " " THEN <<"+">> ELSE PercentCode(s[i])])

PercentChar(a, b) ==
    CASE <<a, b>> = <<"2","0">> -> " "
      [] <<a, b>> = <<"2","6">> -> "&"
      [] <<a, b>> = <<"3","D">> -> "="
      [] <<a, b>> = <<"2","B">> -> "+"
      [] <<a, b>> = <<"2","5">> -> "%"
      [] OTHER -> "?"

\* the decoding done by the URLSearchParams parser
RECURSIVE FormDecode(_)
FormDecode(s) ==
    IF s = <<>> THEN <<>>
    ELSE IF Head(s) = "+" THEN <<" ">> \o FormDecode(Tail(s))
    ELSE IF Head(s) = "%" /\ Len(s) >= 3
         THEN <<PercentChar(s[2], s[3])>> \o FormDecode(SubSeq(s, 4, Len(s)))
    ELSE <<Head(s)>> \o FormDecode(Tail(s))

\* the pieces of s between occurrences of the character sep
RECURSIVE SplitOn(_, _)
SplitOn(s, sep) ==
    IF \A i \in 1..Len(s) : s[i] # sep THEN <<s>>
    ELSE LET i == CHOOSE j \in 1..Len(s) :
                      s[j] = sep /\ \A k \in 1..(j - 1) : s[k] # sep
         IN  <<SubSeq(s, 1, i - 1)>> \o SplitOn(SubSeq(s, i + 1, Len(s)), sep)

ParsePair(piece) ==
    IF \A i \in 1..Len(piece) : piece[i] # "="
    THEN <<FormDecode(piece), <<>>>>
    ELSE LET i == CHOOSE j \in 1..Len(piece) :
                      piece[j] = "=" /\ \A k \in 1..(j - 1) : piece[k] # "="
         IN  <<FormDecode(SubSeq(piece, 1, i - 1)),
               FormDecode(SubSeq(piece, i + 1, Len(piece)))>>

\* the name/value pairs a query string is parsed into (URLSearchParams parser)
ParseQueryString(qs) ==
    LET pieces == SelectSeq(SplitOn(qs, "&"), LAMBDA x : x # <<>>)
    IN  [i \in 1..Len(pieces) |-> ParsePair(pieces[i])]

\* URLSearchParams.prototype.toString
RECURSIVE SerializeParams(_)
SerializeParams(pairs) ==
    IF pairs = <<>> THEN <<>>
    ELSE FormEncode(pairs[1][1]) \o <<"=">> \o FormEncode(pairs[1][2])
           \o (IF Len(pairs) > 1 THEN <<"&">> \o SerializeParams(Tail(pairs))
               ELSE <<>>)

K_query     == <<"q","u","e","r","y">>
K_page      == <<"p","a","g","e">>
K_year_min  == <<"y","e","a","r","_","m","i","n">>
K_year_max  == <<"y","e","a","r","_","m","a","x">>
K_location  == <<"l","o","c","a","t","i","o","n">>
K_price_min == <<"p","r","i","c","e","_","m","i","n">>
K_price_max == <<"p","r","i","c","e","_","m","a","x">>
K_sort_by   == <<"s","o","r","t","_","b","y">>

(***************************************************************************)
(* standardizeTextDisplay and renderExtractedText (part_001:60-119)        *)
(***************************************************************************)
STATUS_EXTRACTING == <<"e","x","t","r","a","c","t","i","n","g">>
STATUS_NONE       == <<"n","o","n","e">>

noTextPhrases == <<
    <<"u","n","a","b","l","e"," ","t","o"," ","e","x","t","r","a","c","t">>,
    <<"c","a","n","'","t"," ","e","x","t","r","a","c","t">>,
    <<"s","o","r","r","y">>,
    <<"c","o","u","l","d","n","'","t">>,
    <<"n","o"," ","t","e","x","t">>,
    <<"n","o","t"," ","v","i","s","i","b","l","e">>,
    <<"n","o","t"," ","d","e","t","e","c","t","e","d">>,
    <<"n","o"," ","t","e","x","t"," ","f","o","u","n","d">>,
    <<"n","o","_","t","e","x","t","_","f","o","u","n","d">>,
    <<"i"," ","d","o","n","'","t"," ","s","e","e"," ","a","n","y">>,
    <<"c","a","n","n","o","t"," ","s","e","e">> >>

MinTextLength == 5

standardizeTextDisplayShortTexts(t) ==
    IF t = Undefined THEN STATUS_EXTRACTING
    ELSE IF t = Null \/ t.v = <<>> THEN STATUS_NONE
    ELSE IF \E k \in 1..Len(noTextPhrases) :
                Includes(ToLowerCase(t.v), noTextPhrases[k])
         THEN STATUS_NONE
    ELSE t.v

standardizeTextDisplay(t) ==
    IF t = Undefined THEN STATUS_EXTRACTING
    ELSE IF t = Null \/ t.v = <<>> THEN STATUS_NONE
    ELSE IF \E k \in 1..Len(noTextPhrases) :
                Includes(ToLowerCase(t.v), noTextPhrases[k])
         THEN STATUS_NONE
    ELSE IF Len(t.v) < MinTextLength THEN STATUS_NONE
    ELSE t.v

ShowExtracting == [kind |-> "Extracting text...", body |-> <<>>]
ShowNoText     == [kind |-> "No text detected", body |-> <<>>]
ShowText(s)    == [kind |-> "text", body |-> s]
NotRendered    == [kind |-> "not rendered", body |-> <<>>]

renderExtractedTextNoTimeout(status, timedOut) ==
    IF status = STATUS_EXTRACTING THEN ShowExtracting
    ELSE IF status = STATUS_NONE THEN ShowNoText
    ELSE ShowText(status)

renderExtractedText(status, timedOut) ==
    IF status = STATUS_EXTRACTING /\ ~timedOut THEN ShowExtracting
    ELSE IF status = STATUS_NONE \/ (status = STATUS_EXTRACTING /\ timedOut)
         THEN ShowNoText
    ELSE ShowText(status)

(***************************************************************************)
(* The text slot of a mounted SearchResults                                *)
(***************************************************************************)
MaxTextLen == 5

TextAlphabet == {"s", "o", "r", "y", "R"}

\* texts the OCR backend is seen to produce, beside the enumerated ones
SampleTexts == {
    <<"e","x","t","r","a","c","t","i","n","g">>,
    <<"n","o","n","e">>,
    <<"P","a","r","i","s"," ","1","9","2","0">>,
    <<"N","o"," ","T","e","x","t"," ","F","o","u","n","d">>,
    <<"N","O","_","T","E","X","T","_","F","O","U","N","D">>,
    <<"I"," ","c","a","n","n","o","t"," ","s","e","e"," ","i","t">>,
    <<"U","n","a","b","l","e"," ","t","o"," ","e","x","t","r","a","c","t">>,
    <<"I"," ","c","a","n","'","t"," ","e","x","t","r","a","c","t">>,
    <<"C","o","u","l","d","n","'","t">>,
    <<"N","o","t"," ","V","i","s","i","b","l","e">>,
    <<"n","o","t"," ","d","e","t","e","c","t","e","d">>,
    <<"I"," ","d","o","n","'","t"," ","s","e","e"," ","a","n","y">>,
    <<"n","o","t","e"," ","x","t">>,
    <<"H","i","!","!">>,
    <<"H","i","!","!","!">> }

TextValues ==
    {Undefined, Null}
      \cup {Str(s) : s \in StringsUpTo(TextAlphabet, MaxTextLen) \cup SampleTexts}

\* the search state of a SearchResults that shows no search
IdleResults ==
    /\ props = [query |-> Str(<<>>), page |-> Num(1), yearMin |-> Undefined,
                yearMax |-> Undefined, location |-> Undefined,
                priceMin |-> Undefined, priceMax |-> Undefined,
                sortBy |-> Str(<<>>)]
    /\ results = <<>>
    /\ total = 0
    /\ loading = TRUE
    /\ error = Null
    /\ enhancedQuery = Null
    /\ inflight = {}
    /\ sent = 0
    /\ lastEvent = [type |-> "mount"]

NoTimer == {}

\* the state of a page without a SearchForm
NoForm ==
    /\ formMounted = FALSE
    /\ query = <<>>
    /\ suggestions = <<>>
    /\ showSuggestions = FALSE
    /\ isLoading = FALSE
    /\ debounce = NoTimer
    /\ suggestInflight = {}
    /\ suggestSent = 0
    /\ pushed = Undefined
    /\ formEvent = [type |-> "none"]

\* the state of a page without a FilterPanel
NoPanel ==
    /\ panel = [mounted |-> FALSE]
    /\ panelEvent = [type |-> "none"]

InitText ==
    /\ IdleResults
    /\ NoForm
    /\ NoPanel
    /\ text \in TextValues
    /\ textStatus = <<>>
    /\ shown = NotRendered
    /\ extractionTimeout = FALSE
    /\ timer = TRUE
    /\ mounted = TRUE

\* a render of the card: part_001:272
RenderSlot ==
    /\ mounted
    /\ shown = NotRendered
    /\ textStatus' = standardizeTextDisplay(text)
    /\ shown' = renderExtractedText(textStatus', extractionTimeout)
    /\ UNCHANGED <<text, extractionTimeout, timer, mounted>>
    /\ UNCHANGED resultsVars
    /\ UNCHANGED formVars
    /\ UNCHANGED panelVars

\* the timer callback (part_001:53-55) and the re-render it causes
ExtractionTimerFires ==
    /\ timer
    /\ extractionTimeout' = TRUE
    /\ timer' = FALSE
    /\ shown' = IF shown = NotRendered THEN NotRendered
                ELSE renderExtractedText(textStatus, TRUE)
    /\ UNCHANGED <<text, textStatus, mounted>>
    /\ UNCHANGED resultsVars
    /\ UNCHANGED formVars
    /\ UNCHANGED panelVars

\* the effect's cleanup (part_001:57): unmounting clears the timer
UnmountSlot ==
    /\ mounted
    /\ mounted' = FALSE
    /\ timer' = FALSE
    /\ shown' = NotRendered
    /\ UNCHANGED <<text, textStatus, extractionTimeout>>
    /\ UNCHANGED resultsVars
    /\ UNCHANGED formVars
    /\ UNCHANGED panelVars

NextText == RenderSlot \/ ExtractionTimerFires \/ UnmountSlot

SpecText == InitText /\ [][NextText]_vars

FairSpecText == SpecText /\ WF_vars(ExtractionTimerFires)

(***************************************************************************)
(* Claims about the extracted-text panel                                   *)
(***************************************************************************)
\* two characters are equal up to letter case
SameCharIgnoringCase(a, b) ==
    \/ a = b
    \/ \E i \in 1..Len(UpperLetters) : {a, b} = {UpperLetters[i], LowerLetters[i]}

\* s holds phrase p somewhere, letter case ignored
HoldsPhrase(s, p) ==
    \E off \in 0..(Len(s) - Len(p)) :
        \A i \in 1..Len(p) : SameCharIgnoringCase(s[off + i], p[i])

ClassifiedAsNone(t) ==
    \/ t = Null
    \/ /\ t \notin {Undefined, Null}
       /\ \/ t.v = <<>>
          \/ \E k \in 1..Len(noTextPhrases) : HoldsPhrase(t.v, noTextPhrases[k])
          \/ Len(t.v) < 5

\* C1: standardizeTextDisplay gives 'extracting' for undefined; 'none' for
\* null, the empty string, a text holding one of the no-text phrases in any
\* letter case, or a text shorter than 5 characters; and every other text
\* unchanged.
C1_StandardizeTriState ==
    shown # NotRendered =>
        /\ text = Undefined => textStatus = STATUS_EXTRACTING
        /\ ClassifiedAsNone(text) => textStatus = STATUS_NONE
        /\ (text # Undefined /\ ~ClassifiedAsNone(text)) => textStatus = text.v

\* a five-character text holding "sorry" in mixed case has been classified
C1_Witness ==
    /\ text = Str(<<"s","o","R","r","y">>)
    /\ shown # NotRendered
    /\ textStatus = STATUS_NONE

\* C2: a slot whose status is 'extracting' shows "Extracting text..." only
\* while the 10 s timer has not fired; after it fired the slot shows "No text
\* detected"; so a slot showing "Extracting text..." eventually stops
\* showing it.
C2_BoundedExtractionWait ==
    /\ [](shown = ShowExtracting =>
            (textStatus = STATUS_EXTRACTING /\ ~extractionTimeout))
    /\ []((shown # NotRendered /\ textStatus = STATUS_EXTRACTING /\ extractionTimeout)
            => shown = ShowNoText)
    /\ ((shown = ShowExtracting) ~> (shown # ShowExtracting))

\* the timer fired on a slot that was still extracting
C2_Witness ==
    /\ text = Undefined
    /\ textStatus = STATUS_EXTRACTING
    /\ extractionTimeout
    /\ shown = ShowNoText

(***************************************************************************)
(* SearchPage: the props it derives from the URL (part_003:16-23)          *)
(***************************************************************************)
IsDigit(c) == \E i \in 1..Len(Digits) : Digits[i] = c

DigitValue(c) == (CHOOSE i \in 1..Len(Digits) : Digits[i] = c) - 1

RECURSIVE DigitsToNat(_)
DigitsToNat(s) ==
    IF s = <<>> THEN 0
    ELSE 10 * DigitsToNat(SubSeq(s, 1, Len(s) - 1)) + DigitValue(s[Len(s)])

\* the longest prefix of s made of digits
RECURSIVE DigitPrefix(_)
DigitPrefix(s) ==
    IF s = <<>> \/ ~IsDigit(Head(s)) THEN <<>>
    ELSE <<Head(s)>> \o DigitPrefix(Tail(s))

RECURSIVE TrimStart(_)
TrimStart(s) == IF s # <<>> /\ Head(s) = " " THEN TrimStart(Tail(s)) ELSE s

\* parseInt on the strings of this model (none holds a sign or a radix prefix)
parseInt(s) ==
    LET d == DigitPrefix(TrimStart(s))
    IN  IF d = <<>> THEN NaN ELSE Num(DigitsToNat(d))

RECURSIVE StripTrailingZeros(_)
StripTrailingZeros(s) ==
    IF s # <<>> /\ s[Len(s)] = "0" THEN StripTrailingZeros(SubSeq(s, 1, Len(s) - 1))
    ELSE s

parseFloatTruncating(s) == parseInt(s)

\* parseFloat on the strings of this model (none holds a sign or an exponent)
parseFloat(s) ==
    LET t == TrimStart(s)
        d == DigitPrefix(t)
        rest == SubSeq(t, Len(d) + 1, Len(t))
        frac == IF rest # <<>> /\ Head(rest) = "." THEN DigitPrefix(Tail(rest))
                ELSE <<>>
        f == StripTrailingZeros(frac)
    IN  IF d = <<>> /\ frac = <<>> THEN NaN
        ELSE IF f = <<>> THEN Num(DigitsToNat(d))
        ELSE Dec(DigitsToNat(d), f)

\* searchParams[name]: undefined when absent, the string when given once, an
\* array when given several times
SearchParam(pairs, name) ==
    LET idx == {i \in 1..Len(pairs) : pairs[i][1] = name}
    IN  IF idx = {} THEN Undefined
        ELSE IF Cardinality(idx) = 1
             THEN Str(pairs[CHOOSE i \in idx : TRUE][2])
        ELSE Arr([i \in 1..Cardinality(idx) |-> <<>>])

SearchPage(qs) ==
    LET pairs == ParseQueryString(qs)
        P(name) == SearchParam(pairs, name)
        IsString(x) == x.t = "string"
    IN  [query    |-> IF IsString(P(K_query)) THEN P(K_query) ELSE Str(<<>>),
         page     |-> IF IsString(P(K_page)) THEN parseInt(P(K_page).v) ELSE Num(1),
         yearMin  |-> IF IsString(P(K_year_min)) THEN parseInt(P(K_year_min).v)
                      ELSE Undefined,
         yearMax  |-> IF IsString(P(K_year_max)) THEN parseInt(P(K_year_max).v)
                      ELSE Undefined,
         location |-> IF IsString(P(K_location)) THEN P(K_location) ELSE Undefined,
         priceMin |-> IF IsString(P(K_price_min)) THEN parseFloat(P(K_price_min).v)
                      ELSE Undefined,
         priceMax |-> IF IsString(P(K_price_max)) THEN parseFloat(P(K_price_max).v)
                      ELSE Undefined,
         sortBy   |-> IF IsString(P(K_sort_by)) THEN P(K_sort_by)
                      ELSE Str(<<"r","e","l","e","v","a","n","c","e">>)]

(***************************************************************************)
(* SearchResults: fetchResults (part_001:121-175)                          *)
(***************************************************************************)
Pair(k, v) == <<<<k, v>>>>

\* the parameters appended to the URLSearchParams, part_001:130-139
SearchParamsTruthyFilters(p) ==
    Pair(K_query, p.query.v)
      \o Pair(K_page, NumberToString(p.page))
      \o (IF Truthy(p.yearMin) THEN Pair(K_year_min, NumberToString(p.yearMin))
          ELSE <<>>)
      \o (IF Truthy(p.yearMax) THEN Pair(K_year_max, NumberToString(p.yearMax))
          ELSE <<>>)
      \o (IF Truthy(p.location) THEN Pair(K_location, p.location.v) ELSE <<>>)
      \o (IF Truthy(p.priceMin) THEN Pair(K_price_min, NumberToString(p.priceMin))
          ELSE <<>>)
      \o (IF Truthy(p.priceMax) THEN Pair(K_price_max, NumberToString(p.priceMax))
          ELSE <<>>)
      \o (IF Truthy(p.sortBy) THEN Pair(K_sort_by, p.sortBy.v) ELSE <<>>)

SearchParams(p) ==
    Pair(K_query, p.query.v)
      \o Pair(K_page, NumberToString(p.page))
      \o (IF p.yearMin # Undefined THEN Pair(K_year_min, NumberToString(p.yearMin))
          ELSE <<>>)
      \o (IF p.yearMax # Undefined THEN Pair(K_year_max, NumberToString(p.yearMax))
          ELSE <<>>)
      \o (IF Truthy(p.location) THEN Pair(K_location, p.location.v) ELSE <<>>)
      \o (IF p.priceMin # Undefined THEN Pair(K_price_min, NumberToString(p.priceMin))
          ELSE <<>>)
      \o (IF p.priceMax # Undefined THEN Pair(K_price_max, NumberToString(p.priceMax))
          ELSE <<>>)
      \o (IF Truthy(p.sortBy) THEN Pair(K_sort_by, p.sortBy.v) ELSE <<>>)

\* the query string of apiUrl, part_001:142
SearchUrl(p) == SerializeParams(SearchParams(p))

\* a fetchResults call waiting for its response: the props its closure holds
\* and the query string it sent
Request(id, p) == [id |-> id, props |-> p, url |-> SearchUrl(p)]

ERROR_MESSAGE ==
    [t |-> "string", s |-> "Failed to fetch search results. Please try again later."]

PageSize == 20

(***************************************************************************)
(* The /api/search responses the model draws from                          *)
(***************************************************************************)
Item(q, pg, i) == [query |-> q, page |-> pg, i |-> i]

ItemsOfPage(q, pg, k) == [i \in 1..k |-> Item(q, pg, i)]

VINTAGE == <<" ","v","i","n","t","a","g","e">>

\* the JSON bodies of an OK response to request r
OkData(r) ==
    LET q  == r.props.query.v
        pg == r.props.page
        before == IF pg.t = "number" /\ pg.n >= 1 THEN (pg.n - 1) * PageSize ELSE 0
    IN  { \* a body without results, total and enhanced_query
          [results |-> Undefined, total |-> Undefined, enhanced_query |-> Undefined],
          \* nothing found; the enhancer fell back to the original query
          [results |-> Arr(<<>>), total |-> Num(0), enhanced_query |-> Str(q)],
          \* a full page with more to come; the query was enhanced
          [results |-> Arr(ItemsOfPage(q, pg, PageSize)),
           total |-> Num(before + PageSize + 5),
           enhanced_query |-> Str(q \o VINTAGE)],
          \* the last page, holding one result; enhanced_query is null
          [results |-> Arr(ItemsOfPage(q, pg, 1)), total |-> Num(before + 1),
           enhanced_query |-> Null],
          \* the last page, and it is full
          [results |-> Arr(ItemsOfPage(q, pg, PageSize)),
           total |-> Num(before + PageSize), enhanced_query |-> Null] }

FullPage(r) ==
    CHOOSE d \in OkData(r) : d.results # Undefined /\ Len(d.results.a) = PageSize

Responses(r) ==
    {[kind |-> "ok", data |-> d] : d \in OkData(r)}
      \cup {[kind |-> "notok"], [kind |-> "throw"]}

(***************************************************************************)
(* SearchResults: the rendered view (part_001:177-352)                     *)
(***************************************************************************)
Screen ==
    IF loading THEN "loading"
    ELSE IF error # Null THEN "error"
    ELSE "results"

ErrorShown == IF Screen = "error" THEN error ELSE Null

TryAgainShown == Screen = "error"

CardsShown == IF Screen = "results" THEN results ELSE <<>>

\* part_001:203
NoteShown ==
    Screen = "results" /\ Truthy(enhancedQuery) /\ enhancedQuery # props.query

PaginationShown == Screen = "results" /\ total > 0

PreviousShown == PaginationShown /\ props.page.t = "number" /\ props.page.n > 1

NextShown == PaginationShown /\ Len(results) >= PageSize

\* the query string of the href of a pagination link to page target,
\* part_001:329 and 342
PaginationHref(p, target) ==
    K_query \o <<"=">> \o encodeURIComponent(p.query.v)
      \o <<"&">> \o K_page \o <<"=">> \o NumberToString(target)
      \o (IF Truthy(p.yearMin)
          THEN <<"&">> \o K_year_min \o <<"=">> \o NumberToString(p.yearMin)
          ELSE <<>>)
      \o (IF Truthy(p.yearMax)
          THEN <<"&">> \o K_year_max \o <<"=">> \o NumberToString(p.yearMax)
          ELSE <<>>)
      \o (IF Truthy(p.location)
          THEN <<"&">> \o K_location \o <<"=">> \o encodeURIComponent(p.location.v)
          ELSE <<>>)
      \o (IF Truthy(p.priceMin)
          THEN <<"&">> \o K_price_min \o <<"=">> \o NumberToString(p.priceMin)
          ELSE <<>>)
      \o (IF Truthy(p.priceMax)
          THEN <<"&">> \o K_price_max \o <<"=">> \o NumberToString(p.priceMax)
          ELSE <<>>)
      \o (IF Truthy(p.sortBy) THEN <<"&">> \o K_sort_by \o <<"=">> \o p.sortBy.v
          ELSE <<>>)

PreviousHref == PaginationHref(props, Num(props.page.n - 1))

NextHref ==
    PaginationHref(props, IF props.page.t = "number" THEN Num(props.page.n + 1)
                          ELSE NaN)

(***************************************************************************)
(* SearchResults: steps                                                    *)
(***************************************************************************)
MaxRequests == 3
MaxPage == 2

\* the effect of part_001:121-175 run for props p, up to its await
fetchResultsStartAnyQuery(p) ==
    /\ loading' = TRUE
    /\ error' = Null
    /\ inflight' = inflight \cup {Request(sent + 1, p)}
    /\ sent' = sent + 1

fetchResultsStart(p) ==
    IF ~Truthy(p.query)
    THEN UNCHANGED <<loading, error, inflight, sent>>
    ELSE /\ loading' = TRUE
         /\ error' = Null
         /\ inflight' = inflight \cup {Request(sent + 1, p)}
         /\ sent' = sent + 1

\* fetchResults of request r from its await on, given the response
fetchResultsSettleNoFinally(r, resp) ==
    /\ inflight' = inflight \ {r}
    /\ IF resp.kind = "ok"
       THEN /\ results' = IF Truthy(resp.data.results) THEN resp.data.results.a
                          ELSE <<>>
            /\ total' = IF Truthy(resp.data.total) THEN resp.data.total.n ELSE 0
            /\ enhancedQuery' = IF Truthy(resp.data.enhanced_query)
                                THEN resp.data.enhanced_query ELSE Null
            /\ loading' = FALSE
            /\ UNCHANGED error
       ELSE /\ error' = ERROR_MESSAGE
            /\ results' = <<>>
            /\ total' = 0
            /\ UNCHANGED <<enhancedQuery, loading>>
    /\ lastEvent' = [type |-> resp.kind, req |-> r, resp |-> resp]
    /\ UNCHANGED <<props, sent>>

fetchResultsSettleKeepsResults(r, resp) ==
    /\ inflight' = inflight \ {r}
    /\ IF resp.kind = "ok"
       THEN /\ results' = IF Truthy(resp.data.results) THEN resp.data.results.a
                          ELSE <<>>
            /\ total' = IF Truthy(resp.data.total) THEN resp.data.total.n ELSE 0
            /\ enhancedQuery' = IF Truthy(resp.data.enhanced_query)
                                THEN resp.data.enhanced_query ELSE Null
            /\ UNCHANGED error
       ELSE /\ error' = ERROR_MESSAGE
            /\ UNCHANGED <<results, total, enhancedQuery>>
    /\ loading' = FALSE
    /\ lastEvent' = [type |-> resp.kind, req |-> r, resp |-> resp]
    /\ UNCHANGED <<props, sent>>

fetchResultsSettleRetries(r, resp) ==
    /\ IF resp.kind = "ok"
       THEN /\ results' = IF Truthy(resp.data.results) THEN resp.data.results.a
                          ELSE <<>>
            /\ total' = IF Truthy(resp.data.total) THEN resp.data.total.n ELSE 0
            /\ enhancedQuery' = IF Truthy(resp.data.enhanced_query)
                                THEN resp.data.enhanced_query ELSE Null
            /\ inflight' = inflight \ {r}
            /\ UNCHANGED <<error, sent>>
       ELSE /\ error' = ERROR_MESSAGE
            /\ results' = <<>>
            /\ total' = 0
            /\ IF sent < MaxRequests
               THEN /\ inflight' = (inflight \ {r}) \cup {Request(sent + 1, r.props)}
                    /\ sent' = sent + 1
               ELSE /\ inflight' = inflight \ {r}
                    /\ UNCHANGED sent
            /\ UNCHANGED enhancedQuery
    /\ loading' = FALSE
    /\ lastEvent' = [type |-> resp.kind, req |-> r, resp |-> resp]
    /\ UNCHANGED props

fetchResultsSettle(r, resp) ==
    /\ inflight' = inflight \ {r}
    /\ IF resp.kind = "ok"
       THEN /\ results' = IF Truthy(resp.data.results) THEN resp.data.results.a
                          ELSE <<>>
            /\ total' = IF Truthy(resp.data.total) THEN resp.data.total.n ELSE 0
            /\ enhancedQuery' = IF Truthy(resp.data.enhanced_query)
                                THEN resp.data.enhanced_query ELSE Null
            /\ UNCHANGED error
       ELSE /\ error' = ERROR_MESSAGE
            /\ results' = <<>>
            /\ total' = 0
            /\ UNCHANGED enhancedQuery
    /\ loading' = FALSE
    /\ lastEvent' = [type |-> resp.kind, req |-> r, resp |-> resp]
    /\ UNCHANGED <<props, sent>>

RELEVANCE == <<"r","e","l","e","v","a","n","c","e">>

\* the props the parent renders SearchResults with in the dynamic model
NavProps ==
    [query : {Str(<<>>), Str(<<"a">>), Str(<<"b">>)},
     page : {Num(k) : k \in 1..MaxPage},
     yearMin : {Undefined}, yearMax : {Undefined}, location : {Undefined},
     priceMin : {Undefined}, priceMax : {Undefined},
     sortBy : {Str(RELEVANCE)}]

\* the state after the first commit of a SearchResults rendered with props p
Mounted(p) ==
    /\ props = p
    /\ results = <<>>
    /\ total = 0
    /\ loading = TRUE
    /\ error = Null
    /\ enhancedQuery = Null
    /\ inflight = IF Truthy(p.query) THEN {Request(1, p)} ELSE {}
    /\ sent = IF Truthy(p.query) THEN 1 ELSE 0
    /\ lastEvent = [type |-> "mount"]
    /\ text = Undefined
    /\ textStatus = <<>>
    /\ shown = NotRendered
    /\ extractionTimeout = FALSE
    /\ timer = TRUE
    /\ mounted = TRUE
    /\ NoForm

InitResults == \E p \in NavProps : Mounted(p) /\ NoPanel

\* the parent renders with other props: a dependency of the effect changed
\* (part_001:175) and the effect runs again
ChangeProps(p) ==
    /\ mounted
    /\ p # props
    /\ sent < MaxRequests
    /\ props' = p
    /\ fetchResultsStart(p)
    /\ lastEvent' = [type |-> "props"]
    /\ UNCHANGED <<results, total, enhancedQuery>>
    /\ UNCHANGED textVars
    /\ UNCHANGED formVars
    /\ UNCHANGED panelVars

Navigate == \E p \in NavProps : ChangeProps(p)

SettleOk ==
    \E r \in inflight : \E d \in OkData(r) :
        /\ fetchResultsSettle(r, [kind |-> "ok", data |-> d])
        /\ UNCHANGED textVars
        /\ UNCHANGED formVars
        /\ UNCHANGED panelVars

\* a response whose ok is false (part_001:155)
SettleNotOk ==
    \E r \in inflight :
        /\ fetchResultsSettle(r, [kind |-> "notok"])
        /\ UNCHANGED textVars
        /\ UNCHANGED formVars
        /\ UNCHANGED panelVars

\* fetch or response.json() rejects
SettleThrow ==
    \E r \in inflight :
        /\ fetchResultsSettle(r, [kind |-> "throw"])
        /\ UNCHANGED textVars
        /\ UNCHANGED formVars
        /\ UNCHANGED panelVars

\* Try Again (part_001:186): the page is loaded again from its URL, nothing
\* of the old document survives
TryAgain ==
    /\ mounted
    /\ TryAgainShown
    /\ sent < MaxRequests
    /\ results' = <<>>
    /\ total' = 0
    /\ loading' = TRUE
    /\ error' = Null
    /\ enhancedQuery' = Null
    /\ inflight' = IF Truthy(props.query) THEN {Request(sent + 1, props)} ELSE {}
    /\ sent' = IF Truthy(props.query) THEN sent + 1 ELSE sent
    /\ lastEvent' = [type |-> "reload"]
    /\ extractionTimeout' = FALSE
    /\ timer' = TRUE
    /\ UNCHANGED <<props, text, textStatus, shown, mounted>>
    /\ UNCHANGED formVars
    /\ UNCHANGED panelVars

\* the Previous link (part_001:327-334) is followed
FollowPrevious ==
    /\ mounted
    /\ PreviousShown
    /\ ChangeProps(SearchPage(PreviousHref))

\* the Next link (part_001:340-347) is followed
FollowNext ==
    /\ mounted
    /\ NextShown
    /\ props.page.n < MaxPage
    /\ ChangeProps(SearchPage(NextHref))

NextResults ==
    \/ Navigate
    \/ SettleOk
    \/ SettleNotOk
    \/ SettleThrow
    \/ TryAgain
    \/ FollowPrevious
    \/ FollowNext

SpecResults == InitResults /\ [][NextResults]_vars

\* every request gets its response or its network error
FairSpecResults ==
    SpecResults /\ WF_vars(SettleOk \/ SettleNotOk \/ SettleThrow)

(***************************************************************************)
(* SearchResults mounted with any combination of filters, and its          *)
(* pagination links followed                                               *)
(***************************************************************************)
PRICE_ASC == <<"p","r","i","c","e","_","a","s","c">>

FilterProps ==
    [query : {Str(<<"a">>), Str(<<"a"," ","&">>)},
     page : {Num(k) : k \in 1..MaxPage},
     yearMin : {Undefined, Num(0), Num(1900), NaN},
     yearMax : {Undefined, Num(1950)},
     location : {Undefined, Str(<<>>), Str(<<"a"," ","=">>)},
     priceMin : {Undefined, Num(0), Num(5)},
     priceMax : {Undefined, Num(0)},
     sortBy : {Str(<<>>), Str(RELEVANCE), Str(PRICE_ASC)}]

InitLinks == \E p \in FilterProps : Mounted(p) /\ NoPanel

\* an OK response with a full page of results
SettleFullPage ==
    \E r \in inflight :
        /\ fetchResultsSettle(r, [kind |-> "ok", data |-> FullPage(r)])
        /\ UNCHANGED textVars
        /\ UNCHANGED formVars
        /\ UNCHANGED panelVars

NextLinks ==
    \/ SettleFullPage
    \/ FollowPrevious
    \/ FollowNext

SpecLinks == InitLinks /\ [][NextLinks]_vars

(***************************************************************************)
(* FilterPanel (FilterPanel.tsx), rendered by SearchPage next to           *)
(* SearchResults with the same query and filters (part_003:31-61)          *)
(***************************************************************************)
MaxApplies == 1

\* number?.toString() || '' (FilterPanel.tsx:28, 29, 31, 32)
FieldOfNumber(x) == IF x = Undefined THEN <<>> ELSE NumberToString(x)

\* the useState initial values for the props p (FilterPanel.tsx:28-33)
PanelState(p) ==
    [mounted       |-> TRUE,
     yearMinValue  |-> FieldOfNumber(p.yearMin),
     yearMaxValue  |-> FieldOfNumber(p.yearMax),
     locationValue |-> IF Truthy(p.location) THEN p.location.v ELSE <<>>,
     priceMinValue |-> FieldOfNumber(p.priceMin),
     priceMaxValue |-> FieldOfNumber(p.priceMax),
     sortByValue   |-> p.sortBy.v]

\* the filters both handlers set on their URLSearchParams
\* (FilterPanel.tsx:41-45 and 73-77)
FilterParamsKeepsPage(q, f) ==
    Pair(K_query, q)
      \o Pair(K_page, <<"2">>)
      \o (IF f.yearMinValue # <<>> THEN Pair(K_year_min, f.yearMinValue) ELSE <<>>)
      \o (IF f.yearMaxValue # <<>> THEN Pair(K_year_max, f.yearMaxValue) ELSE <<>>)
      \o (IF f.locationValue # <<>> THEN Pair(K_location, f.locationValue) ELSE <<>>)
      \o (IF f.priceMinValue # <<>> THEN Pair(K_price_min, f.priceMinValue) ELSE <<>>)
      \o (IF f.priceMaxValue # <<>> THEN Pair(K_price_max, f.priceMaxValue) ELSE <<>>)

FilterParams(q, f) ==
    Pair(K_query, q)
      \o (IF f.yearMinValue # <<>> THEN Pair(K_year_min, f.yearMinValue) ELSE <<>>)
      \o (IF f.yearMaxValue # <<>> THEN Pair(K_year_max, f.yearMaxValue) ELSE <<>>)
      \o (IF f.locationValue # <<>> THEN Pair(K_location, f.locationValue) ELSE <<>>)
      \o (IF f.priceMinValue # <<>> THEN Pair(K_price_min, f.priceMinValue) ELSE <<>>)
      \o (IF f.priceMaxValue # <<>> THEN Pair(K_price_max, f.priceMaxValue) ELSE <<>>)

\* the query string applyFilters pushes (FilterPanel.tsx:38-49)
applyFiltersHref(q, f) ==
    SerializeParams(FilterParams(q, f)
                      \o (IF f.sortByValue # <<>> THEN Pair(K_sort_by, f.sortByValue)
                          ELSE <<>>))

\* the query string handleSortChange pushes (FilterPanel.tsx:70-80)
handleSortChangeHref(q, f, value) ==
    SerializeParams(FilterParams(q, f) \o Pair(K_sort_by, value))

\* the query string resetFilters pushes (FilterPanel.tsx:62)
resetFiltersHref(q) == K_query \o <<"=">> \o encodeURIComponent(q)

\* the Active Filters section is rendered (FilterPanel.tsx:181)
ActiveFiltersShown ==
    /\ panel.mounted
    /\ \/ panel.yearMinValue # <<>>
       \/ panel.yearMaxValue # <<>>
       \/ panel.locationValue # <<>>
       \/ panel.priceMinValue # <<>>
       \/ panel.priceMaxValue # <<>>

PRICE_DESC == <<"p","r","i","c","e","_","d","e","s","c">>
NEWEST == <<"n","e","w","e","s","t">>

\* the options of the select (FilterPanel.tsx:157-160)
SortOptions == {RELEVANCE, PRICE_ASC, PRICE_DESC, NEWEST}

\* the values typed into the fields; a number input hands over the empty
\* string or a valid floating-point number
YearMinInputs == {<<>>, <<"0">>, <<"1","9","0","0">>}
YearMaxInputs == {<<>>, <<"1","9","5","0">>}
LocationInputs == {<<>>, <<"a"," ","=">>}
PriceMinInputs == {<<>>, <<"1","2",".","5","0">>}
PriceMaxInputs == {<<>>, <<"0">>}
SortInputs == {RELEVANCE, PRICE_ASC}

\* the URLs the page is opened with
PanelUrls ==
    { SerializeParams(Pair(K_query, <<"a"," ","&">>) \o Pair(K_page, <<"2">>)
                        \o Pair(K_year_min, <<"0">>) \o Pair(K_year_max, <<"1","9","5","0">>)
                        \o Pair(K_location, <<"a"," ","=">>)
                        \o Pair(K_price_min, <<".","5">>) \o Pair(K_price_max, <<"5">>)
                        \o Pair(K_sort_by, <<>>)),
      SerializeParams(Pair(K_query, <<"a">>)) }

InitPanel ==
    \E qs \in PanelUrls :
        /\ Truthy(SearchPage(qs).query)
        /\ Mounted(SearchPage(qs))
        /\ panel = PanelState(SearchPage(qs))
        /\ panelEvent = [type |-> "mount"]

\* the panel is followed until it has caused MaxApplies requests
PanelOpen == panel.mounted /\ sent <= MaxApplies

\* onChange of a field (FilterPanel.tsx:95, 104, 119, 132, 141)
SetField(name, v) ==
    /\ PanelOpen
    /\ panel[name] # v
    /\ panel' = [panel EXCEPT ![name] = v]
    /\ panelEvent' = [type |-> "edit"]
    /\ UNCHANGED <<textVars, resultsVars, formVars>>

SetYearMin == \E v \in YearMinInputs : SetField("yearMinValue", v)

SetYearMax == \E v \in YearMaxInputs : SetField("yearMaxValue", v)

SetLocation == \E v \in LocationInputs : SetField("locationValue", v)

SetPriceMin == \E v \in PriceMinInputs : SetField("priceMinValue", v)

SetPriceMax == \E v \in PriceMaxInputs : SetField("priceMaxValue", v)

\* router.push of /search?qs: SearchPage renders SearchResults with the props
\* of the new URL, and its effect runs again if one of them changed
PushSearch(qs) ==
    LET p == SearchPage(qs)
    IN  IF p = props
        THEN UNCHANGED resultsVars
        ELSE /\ props' = p
             /\ fetchResultsStart(p)
             /\ lastEvent' = [type |-> "props"]
             /\ UNCHANGED <<results, total, enhancedQuery>>

\* the Apply button (FilterPanel.tsx:36-50)
applyFilters ==
    /\ PanelOpen
    /\ LET qs == applyFiltersHref(props.query.v, panel)
       IN  /\ PushSearch(qs)
           /\ panelEvent' = [type |-> "apply", state |-> panel,
                             query |-> props.query.v, url |-> qs]
    /\ UNCHANGED panel
    /\ UNCHANGED <<textVars, formVars>>

\* the Reset button (FilterPanel.tsx:53-63)
resetFiltersKeepsLocation ==
    /\ PanelOpen
    /\ panel' = [panel EXCEPT !.yearMinValue = <<>>, !.yearMaxValue = <<>>,
                              !.priceMinValue = <<>>, !.priceMaxValue = <<>>,
                              !.sortByValue = RELEVANCE]
    /\ LET qs == resetFiltersHref(props.query.v)
       IN  /\ PushSearch(qs)
           /\ panelEvent' = [type |-> "reset", state |-> panel,
                             query |-> props.query.v, url |-> qs]
    /\ UNCHANGED <<textVars, formVars>>

resetFilters ==
    /\ PanelOpen
    /\ panel' = [panel EXCEPT !.yearMinValue = <<>>, !.yearMaxValue = <<>>,
                              !.locationValue = <<>>, !.priceMinValue = <<>>,
                              !.priceMaxValue = <<>>, !.sortByValue = RELEVANCE]
    /\ LET qs == resetFiltersHref(props.query.v)
       IN  /\ PushSearch(qs)
           /\ panelEvent' = [type |-> "reset", state |-> panel,
                             query |-> props.query.v, url |-> qs]
    /\ UNCHANGED <<textVars, formVars>>

\* onChange of the select (FilterPanel.tsx:66-81)
handleSortChange(value) ==
    /\ PanelOpen
    /\ panel.sortByValue # value
    /\ panel' = [panel EXCEPT !.sortByValue = value]
    /\ LET qs == handleSortChangeHref(props.query.v, panel, value)
       IN  /\ PushSearch(qs)
           /\ panelEvent' = [type |-> "sort", state |-> panel,
                             query |-> props.query.v, url |-> qs]
    /\ UNCHANGED <<textVars, formVars>>

SortChange == \E value \in SortInputs : handleSortChange(value)

NextPanel ==
    \/ SetYearMin
    \/ SetYearMax
    \/ SetLocation
    \/ SetPriceMin
    \/ SetPriceMax
    \/ applyFilters
    \/ resetFilters
    \/ SortChange

SpecPanel == InitPanel /\ [][NextPanel]_vars

(***************************************************************************)
(* The search page opened with a URL: SearchPage renders FilterPanel and   *)
(* SearchResults only for a query (part_003:31-62)                         *)
(***************************************************************************)
SearchPageShowsResults(qs) == Truthy(SearchPage(qs).query)

\* the URLs the page is opened with: those of PanelUrls, and URLs without a
\* query, with an empty query and with two queries
PageUrls ==
    PanelUrls
      \cup { <<>>,
             SerializeParams(Pair(K_query, <<>>)),
             SerializeParams(Pair(K_page, <<"2">>)),
             SerializeParams(Pair(K_query, <<"a">>) \o Pair(K_query, <<"b">>)) }

InitPage ==
    \E qs \in PageUrls :
        /\ panelEvent = [type |-> "open", url |-> qs]
        /\ IF SearchPageShowsResults(qs)
           THEN /\ Mounted(SearchPage(qs))
                /\ panel = PanelState(SearchPage(qs))
           ELSE /\ IdleResults
                /\ NoForm
                /\ text = Undefined
                /\ textStatus = <<>>
                /\ shown = NotRendered
                /\ extractionTimeout = FALSE
                /\ timer = FALSE
                /\ mounted = FALSE
                /\ panel = [mounted |-> FALSE]

\* the page as opened, and SearchResults followed from there
SpecPage == InitPage /\ [][NextResults]_vars

(***************************************************************************)
(* Claims about FilterPanel                                                *)
(***************************************************************************)
\* the names and the values of name/value pairs parsed from a query string
PairNames(pairs) == {pairs[i][1] : i \in 1..Len(pairs)}

PairValue(pairs, name) == pairs[CHOOSE i \in 1..Len(pairs) : pairs[i][1] = name][2]

QsNames(qs) == PairNames(ParseQueryString(qs))

QsValue(qs, name) == PairValue(ParseQueryString(qs), name)

\* the parameter names of the five filter fields
FieldNames ==
    { <<"yearMinValue", K_year_min>>, <<"yearMaxValue", K_year_max>>,
      <<"locationValue", K_location>>, <<"priceMinValue", K_price_min>>,
      <<"priceMaxValue", K_price_max>> }

\* C11: Apply pushes /search with the current query, exactly those of
\* year_min, year_max, location, price_min and price_max whose field is
\* non-empty, each with the text of its field, and the sort_by held by the
\* select; it has no page parameter, so the page shown next is page 1.
C11_ApplyNavigation ==
    panelEvent.type = "apply" =>
        LET f     == panelEvent.state
            pairs == ParseQueryString(panelEvent.url)
            names == PairNames(pairs)
        IN  /\ Len(pairs) = Cardinality(names)
            /\ names =
                   {K_query}
                     \cup {fn[2] : fn \in {x \in FieldNames : f[x[1]] # <<>>}}
                     \cup (IF f.sortByValue # <<>> THEN {K_sort_by} ELSE {})
            /\ PairValue(pairs, K_query) = panelEvent.query
            /\ \A fn \in FieldNames :
                   f[fn[1]] # <<>> => PairValue(pairs, fn[2]) = f[fn[1]]
            /\ f.sortByValue # <<>> => PairValue(pairs, K_sort_by) = f.sortByValue
            /\ K_page \notin names
            /\ props.query.v = panelEvent.query
            /\ props.page = Num(1)
            /\ props = SearchPage(panelEvent.url)

\* Apply was pressed on page 2 with all five fields filled in
C11_Witness ==
    /\ panelEvent.type = "apply"
    /\ panelEvent.state.yearMinValue = <<"0">>
    /\ panelEvent.state.yearMaxValue = <<"1","9","5","0">>
    /\ panelEvent.state.locationValue = <<"a"," ","=">>
    /\ panelEvent.state.priceMinValue = <<"1","2",".","5","0">>
    /\ panelEvent.state.priceMaxValue = <<"5">>
    /\ panelEvent.query = <<"a"," ","&">>
    /\ \E r \in inflight : r.props.page = Num(2)
    /\ props.page = Num(1)

RECURSIVE StripLeadingZeros(_)
StripLeadingZeros(s) ==
    IF Len(s) > 1 /\ Head(s) = "0" THEN StripLeadingZeros(Tail(s)) ELSE s

\* the number a decimal numeral denotes: its integer digits without leading
\* zeros and its fraction digits without trailing zeros
Numeral(s) ==
    LET parts == SplitOn(s, ".")
        whole == IF parts[1] = <<>> THEN <<"0">> ELSE StripLeadingZeros(parts[1])
        frac  == IF Len(parts) > 1 THEN StripTrailingZeros(parts[2]) ELSE <<>>
    IN  <<whole, frac>>

NumericFieldNames == FieldNames \ {<<"locationValue", K_location>>}

Cleared(f) ==
    /\ \A fn \in FieldNames : f[fn[1]] = <<>>
    /\ f.sortByValue = <<"r","e","l","e","v","a","n","c","e">>

\* C21: Reset empties the five filter fields, selects the sort
\* 'relevance' and pushes /search with the query as its only parameter;
\* after it no Active Filters section is shown; and a Reset that follows a
\* Reset changes neither the panel nor the page.
C21_ResetFilters ==
    /\ [](panelEvent.type = "reset" =>
             /\ Cleared(panel)
             /\ ParseQueryString(panelEvent.url) = <<<<K_query, panelEvent.query>>>>
             /\ ~ActiveFiltersShown
             /\ props.query.v = panelEvent.query
             /\ props.page = Num(1)
             /\ \A x \in {props.yearMin, props.yearMax, props.location,
                           props.priceMin, props.priceMax} : x = Undefined)
    /\ [][(panelEvent.type = "reset" /\ panelEvent'.type = "reset") =>
              /\ panel' = panel
              /\ panelEvent'.url = panelEvent.url
              /\ UNCHANGED resultsVars]_vars

\* Reset was pressed with filters set on page 2: the panel is cleared and
\* the page is searched again without filters
C21_Witness ==
    /\ panelEvent.type = "reset"
    /\ panelEvent.state.yearMinValue = <<"0">>
    /\ panelEvent.state.locationValue = <<"a"," ","=">>
    /\ panelEvent.state.priceMinValue = <<"1","2",".","5","0">>
    /\ panelEvent.state.sortByValue # RELEVANCE
    /\ Cleared(panel)
    /\ sent = 2
    /\ \E r \in inflight : r.id = 2 /\ r.props = props /\ r.props.yearMin = Undefined

(***************************************************************************)
(* Claims about SearchResults                                              *)
(***************************************************************************)
StartKinds == {"mount", "props", "reload"}

FailureKinds == {"notok", "throw"}

SettleKinds == {"ok", "notok", "throw"}

\* C3: a request started for a non-empty query sets loading to true, and a
\* request that settles (OK, non-OK or thrown error) sets loading to false;
\* so when every request settles, the component leaves the loading state.
C3_LoadingFollowsRequest ==
    /\ []((lastEvent.type \in StartKinds /\ Truthy(props.query)) =>
            (loading /\ \E r \in inflight : r.id = sent /\ r.props = props))
    /\ [](lastEvent.type \in SettleKinds => ~loading)
    /\ ((inflight # {}) ~> ~loading)

\* the second request of the component threw and ended the loading state
C3_Witness ==
    /\ lastEvent.type = "throw"
    /\ lastEvent.req.id = 2
    /\ ~loading

\* C4: when a request returns a non-OK status or throws, error is the fixed
\* message, results is empty and total is 0, loading has ended, and the view
\* is the error message with the Try Again button and no result card.
C4_FailureShowsError ==
    lastEvent.type \in FailureKinds =>
        /\ error = ERROR_MESSAGE
        /\ results = <<>>
        /\ total = 0
        /\ ~loading
        /\ ErrorShown = ERROR_MESSAGE
        /\ TryAgainShown
        /\ CardsShown = <<>>

\* a non-OK response arrived after an earlier request had been answered
C4_Witness ==
    /\ lastEvent.type = "notok"
    /\ lastEvent.req.id = 2
    /\ inflight = {}
    /\ Screen = "error"

\* the name/value pairs the server parses from the query string of request r
Carried(r) == ParseQueryString(r.url)

CarriedNames(r) == {Carried(r)[i][1] : i \in 1..Len(Carried(r))}

CarriedValue(r, name) ==
    Carried(r)[CHOOSE i \in 1..Len(Carried(r)) : Carried(r)[i][1] = name][2]

NamesToCarry(p) ==
    {K_query, K_page}
      \cup (IF p.yearMin # Undefined THEN {K_year_min} ELSE {})
      \cup (IF p.yearMax # Undefined THEN {K_year_max} ELSE {})
      \cup (IF p.location # Undefined /\ p.location.v # <<>> THEN {K_location} ELSE {})
      \cup (IF p.priceMin # Undefined THEN {K_price_min} ELSE {})
      \cup (IF p.priceMax # Undefined THEN {K_price_max} ELSE {})
      \cup (IF p.sortBy.v # <<>> THEN {K_sort_by} ELSE {})

\* C7: a request carries query and page; year_min, year_max, price_min and
\* price_max exactly when the prop is defined (0 included); location exactly
\* when it is a non-empty string; sort_by exactly when sortBy is non-empty;
\* and nothing else.
C7_RequestParameters ==
    \A r \in inflight :
        /\ CarriedNames(r) = NamesToCarry(r.props)
        /\ Len(Carried(r)) = Cardinality(CarriedNames(r))
        /\ CarriedValue(r, K_query) = r.props.query.v
        /\ CarriedValue(r, K_page) = NumberToString(r.props.page)
        /\ K_year_min \in CarriedNames(r) =>
               CarriedValue(r, K_year_min) = NumberToString(r.props.yearMin)
        /\ K_year_max \in CarriedNames(r) =>
               CarriedValue(r, K_year_max) = NumberToString(r.props.yearMax)
        /\ K_location \in CarriedNames(r) =>
               CarriedValue(r, K_location) = r.props.location.v
        /\ K_price_min \in CarriedNames(r) =>
               CarriedValue(r, K_price_min) = NumberToString(r.props.priceMin)
        /\ K_price_max \in CarriedNames(r) =>
               CarriedValue(r, K_price_max) = NumberToString(r.props.priceMax)
        /\ K_sort_by \in CarriedNames(r) =>
               CarriedValue(r, K_sort_by) = r.props.sortBy.v

\* a request for year_min 0, price_min 0, an empty location and a query
\* that needs encoding is in flight
C7_Witness ==
    \E r \in inflight :
        /\ r.props.yearMin = Num(0)
        /\ r.props.priceMin = Num(0)
        /\ r.props.location = Str(<<>>)
        /\ r.props.query = Str(<<"a"," ","&">>)
        /\ K_year_min \in CarriedNames(r)
        /\ K_location \notin CarriedNames(r)

IsPrefix(a, b) == Len(a) <= Len(b) /\ SubSeq(b, 1, Len(a)) = a

\* C8: after a successful search the total and the enhanced query displayed
\* are those of the response (0 and null when it has none), and the note
\* "Search enhanced to" is shown exactly when the enhanced query is non-empty
\* and differs from the user's query; so no note is shown when the enhancer
\* fell back to the query it was given.
C8_TotalAndEnhancedQuery ==
    lastEvent.type = "ok" =>
        LET d == lastEvent.resp.data
        IN  /\ Screen = "results"
            /\ total = (IF d.total = Undefined THEN 0 ELSE d.total.n)
            /\ enhancedQuery = (IF Truthy(d.enhanced_query) THEN d.enhanced_query
                                ELSE Null)
            /\ NoteShown <=> (Truthy(enhancedQuery) /\ enhancedQuery # props.query)
            /\ d.enhanced_query = lastEvent.req.props.query => ~NoteShown

\* C9: infinite scrolling: when a full page is displayed and the results of
\* the page after it arrive, they are added to the list already displayed.
C9_InfiniteScrolling ==
    [][(/\ lastEvent' # lastEvent
        /\ lastEvent'.type = "ok"
        /\ Len(results) >= PageSize
        /\ results' # <<>>
        /\ results'[1].query = results[1].query
        /\ results'[1].page = Num(results[Len(results)].page.n + 1))
       => IsPrefix(results, results')]_vars

ParamSet(qs) == {ParseQueryString(qs)[i] : i \in 1..Len(ParseQueryString(qs))}

\* C10: the Previous and Next links carry the parameters of the request for
\* the current page, with only the page number changed to page - 1 and
\* page + 1, for every combination of filters, a minimum of 0 included.
C10_LinksKeepFilters ==
    (\A f \in {props.yearMin, props.yearMax, props.priceMin, props.priceMax} :
         f # NaN) =>
    /\ PreviousShown =>
           ParamSet(PreviousHref)
             = ParamSet(SearchUrl([props EXCEPT !.page = Num(props.page.n - 1)]))
    /\ NextShown =>
           ParamSet(NextHref)
             = ParamSet(SearchUrl([props EXCEPT !.page = Num(props.page.n + 1)]))

\* C13: once every request has settled, what is displayed comes from the
\* request made for the current parameters, whatever the order in which the
\* responses arrived: each result shown was found for the query and the
\* page of the props, and the enhanced query was derived from their query.
C13_LatestParametersWin ==
    (inflight = {} /\ lastEvent.type \in SettleKinds /\ Truthy(props.query)) =>
        /\ \A i \in 1..Len(CardsShown) :
               /\ CardsShown[i].query = props.query.v
               /\ CardsShown[i].page = props.page
        /\ (Screen = "results" /\ Truthy(enhancedQuery)) =>
               IsPrefix(props.query.v, enhancedQuery.v)

\* C14: whenever error is not null, results is empty and total is 0, so the
\* error view never hides results of a request that succeeded.
C14_ErrorMeansNoResults ==
    error # Null => (results = <<>> /\ total = 0)

\* C22: the pagination controls are shown only when total > 0; Previous
\* is among them exactly when page > 1; Next is among them only when
\* total > page x 20, so that the page it leads to is not empty.
C22_PaginationControls ==
    /\ (PreviousShown \/ NextShown) => (PaginationShown /\ total > 0)
    /\ PaginationShown => (PreviousShown <=> props.page.n > 1)
    /\ NextShown => total > props.page.n * 20

\* the value of the query parameter when it is given exactly once
QueryParam(qs) ==
    LET pairs == ParseQueryString(qs)
        idx   == {i \in 1..Len(pairs) : pairs[i][1] = K_query}
    IN  IF Cardinality(idx) = 1 THEN pairs[CHOOSE i \in idx : TRUE][2] ELSE <<>>

\* C23: no request is ever made for an empty query: when the page is
\* opened, FilterPanel and SearchResults are mounted exactly when the query
\* parameter is a non-empty string, and nothing is requested otherwise; and
\* an effect run of SearchResults for an empty query changes none of
\* results, total, loading, error and enhancedQuery and sends nothing.
C23_NoSearchForEmptyQuery ==
    /\ [](/\ \A r \in inflight :
                 /\ r.props.query.v # <<>>
                 /\ QueryParam(r.url) # <<>>
          /\ lastEvent.type = "mount" =>
                 /\ mounted <=> QueryParam(panelEvent.url) # <<>>
                 /\ panel.mounted <=> QueryParam(panelEvent.url) # <<>>
                 /\ mounted => props.query.v = QueryParam(panelEvent.url)
                 /\ ~mounted => (inflight = {} /\ sent = 0))
    /\ [][(props' # props /\ props'.query.v = <<>>) =>
              UNCHANGED <<results, total, loading, error, enhancedQuery,
                          inflight, sent>>]_vars

\* the props changed to an empty query while results were displayed and a
\* request was in flight
C23_Witness ==
    /\ props.query = Str(<<>>)
    /\ lastEvent.type = "props"
    /\ results # <<>>
    /\ inflight # {}
    /\ loading

(***************************************************************************)
(* SearchForm (part_002)                                                   *)
(***************************************************************************)
MaxSuggestRequests == 2

MinQueryLength == 2

\* a timer set by the effect run for the query q (part_002:87-89)
Timer(q) == [q |-> q]

\* the texts typed into the input
TypedQueries == {<<>>, <<"p">>, <<"p","a">>, <<" "," ">>, <<" ","p"," ">>}

\* the mock suggestions of part_002:98-104 for the query q
MockSuggestions(q) ==
    << q \o <<" ","v","i","n","t","a","g","e"," ","p","o","s","t","c","a","r","d","s">>,
       q \o <<" ","a","n","t","i","q","u","e"," ","p","o","s","t","c","a","r","d","s">>,
       q \o <<" ","1","9","5","0","s"," ","p","o","s","t","c","a","r","d","s">>,
       q \o <<" ","b","l","a","c","k"," ","a","n","d"," ","w","h","i","t","e"," ","p","o","s","t","c","a","r","d","s">>,
       q \o <<" ","c","o","l","o","r"," ","p","o","s","t","c","a","r","d","s">> >>

\* generateMockSuggestions (part_002:95-107), called from a closure that
\* holds the query q; current is the suggestion list before the call
generateMockSuggestionsNothing(q, current) == current

generateMockSuggestions(q, current) ==
    IF Len(q) < MinQueryLength THEN current ELSE MockSuggestions(q)

\* the JSON bodies of an OK response of /api/suggest to the query q
SuggestData(q) ==
    { [suggestions |-> Undefined],
      [suggestions |-> Arr(<<>>)],
      [suggestions |-> Arr(<<q \o <<"r">>, q \o <<" ","&">>>>)] }

SuggestRequest(id, q) == [id |-> id, query |-> q]

\* String.prototype.trim
RECURSIVE TrimEnd(_)
TrimEnd(s) ==
    IF s # <<>> /\ s[Len(s)] = " " THEN TrimEnd(SubSeq(s, 1, Len(s) - 1)) ELSE s

TrimStartOnly(s) == TrimStart(s)

Trim(s) == TrimEnd(TrimStart(s))

SearchHref(q) == K_query \o <<"=">> \o encodeURIComponent(q)

DropdownShown == showSuggestions /\ suggestions # <<>>

\* the state after the first commit of a SearchForm with initialQuery q: the
\* debounce effect has set its timer
InitForm ==
    /\ IdleResults
    /\ text = Undefined
    /\ textStatus = <<>>
    /\ shown = NotRendered
    /\ extractionTimeout = FALSE
    /\ timer = FALSE
    /\ mounted = FALSE
    /\ formMounted = TRUE
    /\ query \in TypedQueries
    /\ suggestions = <<>>
    /\ showSuggestions = FALSE
    /\ isLoading = FALSE
    /\ debounce = {Timer(query)}
    /\ suggestInflight = {}
    /\ suggestSent = 0
    /\ pushed = Undefined
    /\ formEvent = [type |-> "mount"]
    /\ NoPanel

\* setQuery(q): when the value changes, the effect of part_002:43-92 runs
\* again: the cleanup of the run for the old value clears the timer of that
\* run (part_002:91) and a new timer is set (part_002:87)
DebounceAfterSetQueryKeepsTimers(q) ==
    IF q # query THEN debounce \cup {Timer(q)} ELSE debounce

DebounceAfterSetQuery(q) ==
    IF q # query THEN (debounce \ {Timer(query)}) \cup {Timer(q)} ELSE debounce

\* onChange of the input (part_002:130-133)
InputChange(v) ==
    /\ formMounted
    /\ v # query
    /\ query' = v
    /\ showSuggestions' = TRUE
    /\ debounce' = DebounceAfterSetQuery(v)
    /\ formEvent' = [type |-> "input"]
    /\ UNCHANGED <<formMounted, suggestions, isLoading, suggestInflight,
                   suggestSent, pushed>>
    /\ UNCHANGED <<textVars, resultsVars, panelVars>>

Type == \E v \in TypedQueries : InputChange(v)

\* onFocus of the input (part_002:134)
Focus ==
    /\ formMounted
    /\ showSuggestions' = TRUE
    /\ formEvent' = [type |-> "focus"]
    /\ UNCHANGED <<formMounted, query, suggestions, isLoading, debounce,
                   suggestInflight, suggestSent, pushed>>
    /\ UNCHANGED <<textVars, resultsVars, panelVars>>

\* fetchSuggestions of a closure holding the query q, up to its await
\* (part_002:44-56)
fetchSuggestionsStartAnyLength(q) ==
    /\ isLoading' = TRUE
    /\ suggestInflight' = suggestInflight \cup {SuggestRequest(suggestSent + 1, q)}
    /\ suggestSent' = suggestSent + 1
    /\ UNCHANGED suggestions

fetchSuggestionsStart(q) ==
    IF Len(q) < MinQueryLength
    THEN /\ suggestions' = <<>>
         /\ UNCHANGED <<isLoading, suggestInflight, suggestSent>>
    ELSE /\ isLoading' = TRUE
         /\ suggestInflight' = suggestInflight \cup {SuggestRequest(suggestSent + 1, q)}
         /\ suggestSent' = suggestSent + 1
         /\ UNCHANGED suggestions

\* a 300 ms timer fires (part_002:87-89)
DebounceFires ==
    /\ formMounted
    /\ suggestSent < MaxSuggestRequests
    /\ \E t \in debounce :
           /\ debounce' = debounce \ {t}
           /\ fetchSuggestionsStart(t.q)
           /\ formEvent' = [type |-> "debounce", q |-> t.q]
    /\ UNCHANGED <<formMounted, query, showSuggestions, pushed>>
    /\ UNCHANGED <<textVars, resultsVars, panelVars>>

\* fetchSuggestions of request r from its await on (part_002:65-83)
fetchSuggestionsSettleOpensDropdown(r, resp) ==
    /\ suggestInflight' = suggestInflight \ {r}
    /\ suggestions' =
           IF resp.kind = "ok"
           THEN IF Truthy(resp.data.suggestions) THEN resp.data.suggestions.a
                ELSE <<>>
           ELSE generateMockSuggestions(r.query, <<>>)
    /\ isLoading' = FALSE
    /\ showSuggestions' = TRUE
    /\ formEvent' = [type |-> resp.kind, req |-> r, resp |-> resp]
    /\ UNCHANGED <<formMounted, query, debounce, suggestSent, pushed>>
    /\ UNCHANGED <<textVars, resultsVars, panelVars>>

fetchSuggestionsSettle(r, resp) ==
    /\ suggestInflight' = suggestInflight \ {r}
    /\ suggestions' =
           IF resp.kind = "ok"
           THEN IF Truthy(resp.data.suggestions) THEN resp.data.suggestions.a
                ELSE <<>>
           ELSE generateMockSuggestions(r.query, <<>>)
    /\ isLoading' = FALSE
    /\ formEvent' = [type |-> resp.kind, req |-> r, resp |-> resp]
    /\ UNCHANGED <<formMounted, query, showSuggestions, debounce, suggestSent, pushed>>
    /\ UNCHANGED <<textVars, resultsVars, panelVars>>

SuggestOk ==
    \E r \in suggestInflight : \E d \in SuggestData(r.query) :
        fetchSuggestionsSettle(r, [kind |-> "ok", data |-> d])

SuggestNotOk ==
    \E r \in suggestInflight : fetchSuggestionsSettle(r, [kind |-> "notok"])

SuggestThrow ==
    \E r \in suggestInflight : fetchSuggestionsSettle(r, [kind |-> "throw"])

\* handleSubmit (part_002:109-115)
Submit ==
    /\ formMounted
    /\ IF Trim(query) # <<>>
       THEN /\ pushed' = Str(SearchHref(Trim(query)))
            /\ showSuggestions' = FALSE
       ELSE UNCHANGED <<pushed, showSuggestions>>
    /\ formEvent' = [type |-> "submit"]
    /\ UNCHANGED <<formMounted, query, suggestions, isLoading, debounce,
                   suggestInflight, suggestSent>>
    /\ UNCHANGED <<textVars, resultsVars, panelVars>>

\* handleSuggestionClick (part_002:117-121) on an entry of the dropdown
SuggestionClick ==
    /\ formMounted
    /\ DropdownShown
    /\ \E i \in 1..Len(suggestions) :
           /\ query' = suggestions[i]
           /\ debounce' = DebounceAfterSetQuery(suggestions[i])
           /\ pushed' = Str(SearchHref(suggestions[i]))
    /\ showSuggestions' = FALSE
    /\ formEvent' = [type |-> "click"]
    /\ UNCHANGED <<formMounted, suggestions, isLoading, suggestInflight, suggestSent>>
    /\ UNCHANGED <<textVars, resultsVars, panelVars>>

\* handleClickOutside (part_002:22-29); the listener is there while
\* showSuggestions is true (part_002:32-34)
ClickOutside ==
    /\ formMounted
    /\ showSuggestions
    /\ showSuggestions' = FALSE
    /\ formEvent' = [type |-> "outside"]
    /\ UNCHANGED <<formMounted, query, suggestions, isLoading, debounce,
                   suggestInflight, suggestSent, pushed>>
    /\ UNCHANGED <<textVars, resultsVars, panelVars>>

NextForm ==
    \/ Type
    \/ Focus
    \/ DebounceFires
    \/ SuggestOk
    \/ SuggestNotOk
    \/ SuggestThrow
    \/ Submit
    \/ SuggestionClick
    \/ ClickOutside

SpecForm == InitForm /\ [][NextForm]_vars

\* SearchResults and SearchForm, each followed on its own
SpecRetry == (InitResults \/ InitForm) /\ [][NextResults \/ NextForm]_vars

(***************************************************************************)
(* Claims about retries and about the suggestions                          *)
(***************************************************************************)
\* C5: no automatic retry: a search request is sent only when a prop of
\* SearchResults changes or the page is reloaded by Try Again, so none
\* follows a failure by itself; and a suggestion request is sent only by the
\* debounce timer, which is set only when the query changes, so a failed
\* suggestion request is not sent again for the same query.
C5_NoAutomaticRetry ==
    [][/\ sent' > sent => (props' # props \/ lastEvent'.type = "reload")
       /\ suggestSent' > suggestSent =>
              \E t \in debounce :
                  /\ debounce' = debounce \ {t}
                  /\ \E r \in suggestInflight' \ suggestInflight : r.query = t.q
       /\ (debounce' \ debounce # {}) =>
              (query' # query /\ debounce' \ debounce = {Timer(query')})]_vars

\* a search request failed, nothing is in flight, and the component could
\* still send requests
C5_Witness ==
    /\ lastEvent.type \in FailureKinds
    /\ inflight = {}
    /\ sent < MaxRequests
    /\ TryAgainShown

SuffixWords == <<<<"v","i","n","t","a","g","e">>, <<"a","n","t","i","q","u","e">>, <<"1","9","5","0","s">>,
                 <<"b","l","a","c","k"," ","a","n","d"," ","w","h","i","t","e">>,
                 <<"c","o","l","o","r">>>>

POSTCARDS == <<" ","p","o","s","t","c","a","r","d","s">>

\* C6: when the suggestion request for a query of at least 2 characters is
\* answered with a non-OK status or throws, the suggestions are the five
\* completions "<query> <word> postcards"; when it succeeds, they are the
\* suggestions of the response, or none if the response has none.
C6_SuggestionFallback ==
    /\ formEvent.type \in FailureKinds =>
           /\ Len(formEvent.req.query) >= 2
           /\ suggestions = [i \in 1..5 |->
                  formEvent.req.query \o <<" ">> \o SuffixWords[i] \o POSTCARDS]
    /\ formEvent.type = "ok" =>
           suggestions = (IF formEvent.resp.data.suggestions = Undefined THEN <<>>
                          ELSE formEvent.resp.data.suggestions.a)

\* the request for "pa" threw and the five completions are listed
C6_Witness ==
    /\ formEvent.type = "throw"
    /\ formEvent.req.query = <<"p","a">>
    /\ Len(suggestions) = 5
    /\ suggestions[4] = <<"p","a"," ","b","l","a","c","k"," ","a","n","d"," ","w","h","i","t","e"," ","p","o","s","t","c","a","r","d","s">>

\* C15: when no timer is pending and no suggestion request is in flight,
\* the suggestions listed belong to the text of the input: each completes
\* it, and none is listed for a text shorter than 2 characters.
C15_SuggestionsOfCurrentQuery ==
    (formMounted /\ debounce = {} /\ suggestInflight = {}) =>
        /\ Len(query) < 2 => suggestions = <<>>
        /\ \A i \in 1..Len(suggestions) : IsPrefix(query, suggestions[i])

\* C16: the spinner is shown exactly while a suggestion request is in
\* flight.
C16_SpinnerAccurate ==
    formMounted => (isLoading <=> suggestInflight # {})

\* C17: at most one debounce timer is pending; a change of the query leaves
\* exactly the timer of the new value pending; and a suggestion request is
\* sent only by the timer of the value the query still has, for that value.
C17_Debounce ==
    [][/\ Cardinality(debounce) <= 1
       /\ Cardinality(debounce') <= 1
       /\ query' # query => debounce' = {Timer(query')}
       /\ suggestSent' > suggestSent =>
              /\ debounce = {Timer(query)}
              /\ debounce' = {}
              /\ query' = query
              /\ \A r \in suggestInflight' \ suggestInflight : r.query = query]_vars

\* the query was changed to "pa" while its first timer had fired, and the
\* timer of "pa" has sent the second request
C17_Witness ==
    /\ formEvent.type = "debounce"
    /\ formEvent.q = <<"p","a">>
    /\ query = <<"p","a">>
    /\ suggestSent = 2
    /\ debounce = {}

\* C18: when the timer of a query shorter than 2 characters fires, no
\* request is sent, the suggestions become empty and isLoading keeps its
\* value; no request in flight is for such a query; and
\* generateMockSuggestions called for such a query leaves the list as it is.
C18_ShortQuery ==
    [][/\ (formEvent'.type = "debounce" /\ Len(formEvent'.q) < 2) =>
              /\ suggestSent' = suggestSent
              /\ suggestInflight' = suggestInflight
              /\ suggestions' = <<>>
              /\ isLoading' = isLoading
       /\ \A r \in suggestInflight' : Len(r.query) >= 2
       /\ Len(query') < 2 =>
              generateMockSuggestions(query', suggestions') = suggestions']_vars

\* the timer of "p" fired while the request for an earlier query was in
\* flight: the list is empty and the spinner is still on
C18_Witness ==
    /\ formEvent.type = "debounce"
    /\ formEvent.q = <<"p">>
    /\ suggestions = <<>>
    /\ isLoading
    /\ suggestInflight # {}
    /\ suggestSent = 1

\* s without its leading and trailing spaces
Stripped(s) ==
    LET idx == {i \in 1..Len(s) : s[i] # " "}
    IN  IF idx = {} THEN <<>>
        ELSE SubSeq(s, CHOOSE i \in idx : \A j \in idx : i <= j,
                       CHOOSE i \in idx : \A j \in idx : i >= j)

\* C19: a submit with an empty or all-whitespace query pushes nothing and
\* leaves showSuggestions as it is; a submit with any other query pushes
\* /search with the trimmed query as its only parameter and hides the
\* suggestions.
C19_Submit ==
    [][formEvent'.type = "submit" =>
           IF \A i \in 1..Len(query) : query[i] = " "
           THEN /\ pushed' = pushed
                /\ showSuggestions' = showSuggestions
           ELSE /\ pushed'.t = "string"
                /\ ParseQueryString(pushed'.v) = <<<<K_query, Stripped(query)>>>>
                /\ ~showSuggestions'
                /\ query' = query]_vars

\* " p " was submitted while the dropdown was open
C19_Witness ==
    /\ formEvent.type = "submit"
    /\ query = <<" ","p"," ">>
    /\ pushed = Str(K_query \o <<"=","p">>)
    /\ ~showSuggestions
    /\ suggestions # <<>>

\* C20: the dropdown is shown exactly when showSuggestions is true and
\* there are suggestions; a click on a suggestion, a successful submit and a
\* mouse-down outside hide it; and once hidden it is shown again only by an
\* input change or a focus, not by the arrival of suggestions.
C20_DropdownStaysHidden ==
    [][/\ DropdownShown' <=> (showSuggestions' /\ Len(suggestions') > 0)
       /\ formEvent'.type \in {"click", "outside"} => ~DropdownShown'
       /\ (formEvent'.type = "submit" /\ Stripped(query) # <<>>) => ~DropdownShown'
       /\ formEvent'.type = "click" =>
              /\ pushed'.t = "string"
              /\ ParseQueryString(pushed'.v) = <<<<K_query, query'>>>>
              /\ \E i \in 1..Len(suggestions) : query' = suggestions[i]
       /\ (~showSuggestions /\ formEvent'.type \notin {"input", "focus"}) =>
              ~DropdownShown']_vars

\* after a click on the suggestion "par" the request for it was answered
\* with suggestions, and the dropdown is hidden
C20_Witness ==
    /\ formEvent.type = "ok"
    /\ formEvent.req.query = <<"p","a","r">>
    /\ query = <<"p","a","r">>
    /\ suggestions # <<>>
    /\ pushed = Str(K_query \o <<"=","p","a","r">>)
    /\ ~showSuggestions
    /\ ~DropdownShown

Spec == SpecResults
====
